---- MODULE Spec2Model ----
(***************************************************************************)
(* Leave-request approval workflow of the leave-approval-system server:    *)
(* the handlers of routes/leave.js (POST /request, PUT /approve/:id,       *)
(* PUT /cancel/:id) over the LeaveRequest and LeaveBalance collections,    *)
(* behind the auth / authorize middleware.                                 *)
(*                                                                         *)
(* Time is counted in ticks; DayUnits ticks make the 24 hours that the     *)
(* handler divides by (1000 * 3600 * 24 ms), so a date with a time of day  *)
(* is a tick count that is no multiple of DayUnits.                        *)
(***************************************************************************)
EXTENDS Integers, Sequences, FiniteSets, TLC

VARIABLES
    requests,   \* the LeaveRequest collection: document k has _id k
    balances,   \* the LeaveBalance collection: a set of documents
    now,        \* the server clock (what new Date() returns), in ticks
    last,       \* the call handled last: its request, response and e-mail
    handlers    \* the calls in flight: what each has read and not yet saved

vars == <<requests, balances, now, last, handlers>>

----------------------------------------------------------------------------
(* Bounds of the model *)

MaxRequests == 1     \* documents the LeaveRequest collection may hold
MaxRuns == 2         \* calls one handler slot serves when calls overlap
MaxNow == 2          \* the clock stops advancing here
MaxDate == 4         \* the latest date a request body carries, in ticks
DayUnits == 2        \* ticks per day
YearTicks == 2       \* ticks per calendar year of the clock

----------------------------------------------------------------------------
(* Users: the User collection, which the leave routes only read *)

NoUser == "none"
NoSession == "nosession"

UserIds == {"e1", "m1", "c1", "a1"}

\* a manager whose isActive is false, with a session from before
Deactivated == "x1"

\* user.role
Role(u) ==
    CASE u = "e1" -> "employee"
      [] u = "m1" -> "manager"
      [] u = "c1" -> "coordinator"
      [] u = "a1" -> "admin"
      [] u = Deactivated -> "manager"
      [] OTHER -> "employee"

\* user.manager: e1 reports to m1, the others have no manager
Manager(u) == IF u = "e1" THEN "m1" ELSE NoUser

\* user.employeeId, unique among the users
EmployeeId(u) ==
    CASE u = "e1" -> "E1"
      [] u = "m1" -> "M1"
      [] u = "c1" -> "C1"
      [] u = "a1" -> "A1"
      [] OTHER -> "X1"

\* user.isActive
IsActive(u) == u \in UserIds

----------------------------------------------------------------------------
(* Schemas *)

LeaveTypes == {"sick", "vacation", "personal", "emergency", "maternity",
               "paternity", "other"}

NoTime == 0
NoComment == ""

\* a sub-approval as the schema creates it: status defaults to pending,
\* approvedBy, approvedAt and comments are not set
DefaultApproval ==
    [status |-> "pending", approvedBy |-> NoUser, approvedAt |-> NoTime,
     comments |-> NoComment]

\* a string is a sequence of pieces; this piece is white space
Blank == " "

\* variant: the reason is stored as it was sent
TrimNothing(str) == str

\* reason: {type: String, trim: true}: leading and trailing white space is
\* removed when the field is set
Trim(str) ==
    LET inked == {i \in 1..Len(str) : str[i] # Blank}
    IN  IF inked = {} THEN <<>>
        ELSE SubSeq(str, CHOOSE i \in inked : \A k \in inked : i <= k,
                         CHOOSE i \in inked : \A k \in inked : i >= k)

\* the validation save() runs: reason is required, and an empty string is
\* no value
ValidationErrors(doc) ==
    IF doc.reason = <<>> THEN {"reason"} ELSE {}

\* variant: the manager sub-approval defaults to approved
NewLeaveRequestPreApproved(employee, leaveType, start, end, totalDays, reason, year) ==
    [employee |-> employee, leaveType |-> leaveType, startDate |-> start,
     endDate |-> end, totalDays |-> totalDays, reason |-> Trim(reason),
     academicYear |-> year, status |-> "pending",
     managerApproval |-> [DefaultApproval EXCEPT !.status = "approved"],
     coordinatorApproval |-> DefaultApproval]

\* new LeaveRequest({...}): the given fields plus the schema's defaults
NewLeaveRequest(employee, leaveType, start, end, totalDays, reason, year) ==
    [employee |-> employee, leaveType |-> leaveType, startDate |-> start,
     endDate |-> end, totalDays |-> totalDays, reason |-> Trim(reason),
     academicYear |-> year, status |-> "pending",
     managerApproval |-> DefaultApproval,
     coordinatorApproval |-> DefaultApproval]

----------------------------------------------------------------------------
(* Responses and e-mails *)

NoMail == {}
NoBody == {}
NoErrors == {}

Response(code, message, errors, body) ==
    [code |-> code, message |-> message, errors |-> errors, body |-> body]

NoArg == {}

\* a handled call: the route, the session's user, the :id parameter (for
\* POST /request the _id of the created document, 0 if none), the request
\* body, the response and the e-mail handed to the e-mail service
Handled(op, caller, id, arg, resp, mail) ==
    [op |-> op, caller |-> caller, id |-> id, arg |-> arg, code |-> resp.code,
     message |-> resp.message, errors |-> resp.errors, body |-> resp.body,
     mail |-> mail]

\* sendEmailNotification: one message to one address; a transport failure
\* is logged inside the service and the call returns normally
sendEmailNotification(to, template, data, transportOk) ==
    {[to |-> to, template |-> template, data |-> data,
      delivered |-> transportOk]}

\* auth: 401 without a session or for a missing or inactive user
AuthFailure(caller) ==
    IF caller = NoSession
    THEN {Response(401, "No session, authorization denied", NoErrors, NoBody)}
    ELSE IF ~IsActive(caller)
    THEN {Response(401, "Session is not valid", NoErrors, NoBody)}
    ELSE {}

\* variant: the route is not given the authorize middleware
AuthorizeFailureNever(caller, roles) == {}

\* authorize(...roles): 403 when the user's role is not among roles
AuthorizeFailure(caller, roles) ==
    IF Role(caller) \notin roles
    THEN {Response(403, "Access denied. Insufficient permissions.", NoErrors, NoBody)}
    ELSE {}

----------------------------------------------------------------------------
(* POST /request *)

BadDate == -1

\* isISO8601 on a date of the request body
IsISO8601(d) == d >= 0

\* the express-validator chain of POST /request
SubmitErrors(b) ==
    (IF b.leaveType \notin LeaveTypes THEN {"Invalid leave type"} ELSE {})
    \cup (IF ~IsISO8601(b.startDate) THEN {"Valid start date is required"} ELSE {})
    \cup (IF ~IsISO8601(b.endDate) THEN {"Valid end date is required"} ELSE {})
    \cup (IF b.reason = <<>> THEN {"Reason is required"} ELSE {})

\* variant: Math.floor(a / b)
CeilTruncating(a, b) == a \div b

\* Math.ceil(a / b) for a >= 0, b > 0
Ceil(a, b) == (a + b - 1) \div b

\* variant: the last day is not counted
TotalDaysExclusive(start, end) == Ceil(end - start, DayUnits)

\* Math.ceil(timeDiff / (1000 * 3600 * 24)) + 1
TotalDays(start, end) == Ceil(end - start, DayUnits) + 1

\* new Date().getFullYear().toString()
YearString(t) == IF t < YearTicks THEN "Y0" ELSE "Y1"

\* variant: the year of the clock, whatever the body names
ResolveYearFromClock(academicYear, t) == YearString(t)

\* academicYear || new Date().getFullYear().toString()
ResolveYear(academicYear, t) ==
    IF academicYear # "" THEN academicYear ELSE YearString(t)

\* variant: the ledger entry of any academic year
FindBalanceAnyYear(employee, year, leaveType) ==
    {lb \in balances : lb.employee = employee /\ lb.leaveType = leaveType}

\* LeaveBalance.findOne({employee, academicYear, leaveType})
FindBalance(employee, year, leaveType) ==
    {lb \in balances : lb.employee = employee /\ lb.academicYear = year
                       /\ lb.leaveType = leaveType}

\* variant: the calendar days are compared, so that one day may be asked for
InvalidRangeByDay(start, end) == start \div DayUnits > end \div DayUnits

\* variant: start > end
InvalidRangeStrict(start, end) == start > end

\* start >= end
InvalidRange(start, end) == start >= end

\* variant: the calendar days are compared, not the moments
PastDateByDay(start, t) == start \div DayUnits < t \div DayUnits

\* start < new Date()
PastDate(start, t) == start < t

\* variant: leaveBalance.remaining <= totalDays
InsufficientBalanceOrEqual(found, totalDays) ==
    \E lb \in found : lb.remaining <= totalDays

\* leaveBalance && leaveBalance.remaining < totalDays
InsufficientBalance(found, totalDays) ==
    \E lb \in found : lb.remaining < totalDays

\* toDateString(): the calendar day of a date, without its time of day
DateString(t) == t \div DayUnits

\* the business-rule rejections of the handler, in the order of the code
SubmitRejection(caller, b, t) ==
    IF InvalidRange(b.startDate, b.endDate)
    THEN {Response(400, "End date must be after start date", NoErrors, NoBody)}
    ELSE IF PastDate(b.startDate, t)
    THEN {Response(400, "Cannot request leave for past dates", NoErrors, NoBody)}
    ELSE IF InsufficientBalance(
              FindBalance(caller, ResolveYear(b.academicYear, t), b.leaveType),
              TotalDays(b.startDate, b.endDate))
    THEN {Response(400, "Insufficient leave balance", NoErrors, NoBody)}
    ELSE {}

\* the document the handler builds from an accepted body
SubmittedRequest(caller, b, t) ==
    NewLeaveRequest(caller, b.leaveType, b.startDate, b.endDate,
                    TotalDays(b.startDate, b.endDate), b.reason,
                    ResolveYear(b.academicYear, t))

\* variant: the e-mail is sent whether or not the employee has a manager
SubmitMailUnconditional(caller, doc, transportOk) ==
    sendEmailNotification(Manager(caller), "leave_request",
        [employeeName |-> caller, managerName |-> Manager(caller),
         leaveType |-> doc.leaveType,
         startDate |-> DateString(doc.startDate),
         endDate |-> DateString(doc.endDate),
         totalDays |-> doc.totalDays, reason |-> doc.reason],
        transportOk)

\* the leave_request e-mail to the employee's manager, if there is one
SubmitMail(caller, doc, transportOk) ==
    IF Manager(caller) # NoUser
    THEN sendEmailNotification(Manager(caller), "leave_request",
            [employeeName |-> caller, managerName |-> Manager(caller),
             leaveType |-> doc.leaveType,
             startDate |-> DateString(doc.startDate),
             endDate |-> DateString(doc.endDate),
             totalDays |-> doc.totalDays, reason |-> doc.reason],
            transportOk)
    ELSE NoMail

\* variant: an e-mail that was not delivered is answered by the catch block
SubmitResponseMailChecked(doc, mail) ==
    IF \E sent \in mail : ~sent.delivered
    THEN Response(500, "Server error during leave request submission",
                  NoErrors, NoBody)
    ELSE Response(201, "Leave request submitted successfully", NoErrors, {doc})

\* res.status(201).json(...), reached when the awaited e-mail call returns
SubmitResponse(doc, mail) ==
    Response(201, "Leave request submitted successfully", NoErrors, {doc})

\* the handler, for a LeaveRequest collection that holds at most capacity
\* documents
SubmitWithin(caller, b, capacity) ==
    LET denied == AuthFailure(caller)
        errors == SubmitErrors(b)
        rejected == SubmitRejection(caller, b, now)
        doc == SubmittedRequest(caller, b, now)
    IN  /\ UNCHANGED <<balances, now, handlers>>
        /\ IF denied # {}
           THEN /\ last' = Handled("submit", caller, 0, {b}, CHOOSE r \in denied : TRUE, NoMail)
                /\ UNCHANGED requests
           ELSE IF errors # {}
           THEN /\ last' = Handled("submit", caller, 0, {b},
                                   Response(400, "", errors, NoBody), NoMail)
                /\ UNCHANGED requests
           ELSE IF rejected # {}
           THEN /\ last' = Handled("submit", caller, 0, {b}, CHOOSE r \in rejected : TRUE, NoMail)
                /\ UNCHANGED requests
           ELSE IF ValidationErrors(doc) # {}
           THEN /\ last' = Handled("submit", caller, 0, {b},
                                   Response(500, "Server error during leave request submission",
                                            NoErrors, NoBody),
                                   NoMail)
                /\ UNCHANGED requests
           ELSE /\ Len(requests) < capacity
                /\ requests' = Append(requests, doc)
                /\ \E transportOk \in BOOLEAN :
                      last' = Handled("submit", caller, Len(requests) + 1, {b},
                                      SubmitResponse(doc, SubmitMail(caller, doc, transportOk)),
                                      SubmitMail(caller, doc, transportOk))

Submit(caller, b) == SubmitWithin(caller, b, MaxRequests)

----------------------------------------------------------------------------
(* The form of the client, LeaveRequest.tsx *)

\* endDate.diff(startDate, 'day'): whole days, truncated towards zero
DiffDays(start, end) ==
    IF end >= start THEN (end - start) \div DayUnits
    ELSE 0 - ((start - end) \div DayUnits)

\* const totalDays = endDate.diff(startDate, 'day') + 1
ClientTotalDays(start, end) == DiffDays(start, end) + 1

\* if (days < 0) setError('End date must be after start date')
ClientAccepts(start, end) == ~(ClientTotalDays(start, end) < 0)

----------------------------------------------------------------------------
(* GET /my-requests and GET /pending-approvals *)

\* populate(path): the reference is replaced by the user it names, and by
\* nothing when it names none
Populate(u) == IF u \in UserIds THEN {[_id |-> u]} ELSE {}

\* the document of a list: the stored request with its _id, its references
\* populated
ListEntry(k) ==
    [f \in DOMAIN requests[k] \cup {"_id"} |->
        CASE f = "_id" -> k
          [] f = "employee" -> Populate(requests[k].employee)
          [] f \in {"managerApproval", "coordinatorApproval"} ->
                [requests[k][f] EXCEPT !.approvedBy = Populate(@)]
          [] OTHER -> requests[k][f]]

\* sort({createdAt: -1}): the documents were created in the order of their
\* ids, so the newest has the greatest id
RECURSIVE NewestFirst(_)
NewestFirst(ids) ==
    IF ids = {} THEN <<>>
    ELSE LET newest == CHOOSE k \in ids : \A j \in ids : j <= k
         IN  <<ListEntry(newest)>> \o NewestFirst(ids \ {newest})

\* const { academicYear, status, page = 1, limit = 10 } = req.query
DefaultLimit == 10

NoFilter == ""

DefaultQuery ==
    [academicYear |-> NoFilter, status |-> NoFilter, page |-> 1,
     limit |-> DefaultLimit]

\* { employee: req.userId }, narrowed by academicYear and status when given
MyRequestsQuery(caller, q) ==
    {k \in DOMAIN requests :
        /\ requests[k].employee = caller
        /\ q.academicYear # NoFilter => requests[k].academicYear = q.academicYear
        /\ q.status # NoFilter => requests[k].status = q.status}

\* .limit(limit * 1).skip((page - 1) * limit)
Page(list, page, limit) ==
    SubSeq(list, (page - 1) * limit + 1,
           IF page * limit < Len(list) THEN page * limit ELSE Len(list))

ListMine(caller, q) ==
    LET denied == AuthFailure(caller)
        found == MyRequestsQuery(caller, q)
    IN  /\ UNCHANGED <<requests, balances, now, handlers>>
        /\ IF denied # {}
           THEN last' = Handled("listMine", caller, 0, {q},
                                CHOOSE r \in denied : TRUE, NoMail)
           ELSE last' = Handled("listMine", caller, 0, {q},
                                Response(200, "", NoErrors,
                                   {[leaveRequests |-> Page(NewestFirst(found),
                                                            q.page, q.limit),
                                     totalPages |-> Ceil(Cardinality(found), q.limit),
                                     currentPage |-> q.page,
                                     total |-> Cardinality(found)]}),
                                NoMail)

\* variant: a manager is shown the requests that wait for the manager only
PendingQueryOwnApproval(role) ==
    {k \in DOMAIN requests :
        CASE role = "manager" -> requests[k].managerApproval.status = "pending"
          [] role = "coordinator" ->
                requests[k].coordinatorApproval.status = "pending"
          [] OTHER -> TRUE}

\* variant: only the requests that are still open are listed
PendingQueryOpenOnly(role) ==
    {k \in DOMAIN requests :
        /\ requests[k].status = "pending"
        /\ CASE role = "manager" ->
                  \/ requests[k].managerApproval.status = "pending"
                  \/ requests[k].coordinatorApproval.status = "pending"
             [] role = "coordinator" ->
                  requests[k].coordinatorApproval.status = "pending"
             [] OTHER -> TRUE}

\* the query of GET /pending-approvals for each role; {} for the admin
PendingQuery(role) ==
    {k \in DOMAIN requests :
        CASE role = "manager" ->
                \/ requests[k].managerApproval.status = "pending"
                \/ requests[k].coordinatorApproval.status = "pending"
          [] role = "coordinator" ->
                requests[k].coordinatorApproval.status = "pending"
          [] OTHER -> TRUE}

ListPending(caller) ==
    LET denied == AuthFailure(caller)
        forbidden == AuthorizeFailure(caller, {"manager", "coordinator", "admin"})
    IN  /\ UNCHANGED <<requests, balances, now, handlers>>
        /\ IF denied # {}
           THEN last' = Handled("listPending", caller, 0, NoArg,
                                CHOOSE r \in denied : TRUE, NoMail)
           ELSE IF forbidden # {}
           THEN last' = Handled("listPending", caller, 0, NoArg,
                                CHOOSE r \in forbidden : TRUE, NoMail)
           ELSE last' = Handled("listPending", caller, 0, NoArg,
                                Response(200, "", NoErrors,
                                         {NewestFirst(PendingQuery(Role(caller)))}),
                                NoMail)

----------------------------------------------------------------------------
(* PUT /approve/:id *)

\* variant: every status is accepted
DecideErrorsNone(b) == {}

\* body('status').isIn(['approved', 'rejected'])
DecideErrors(b) ==
    IF b.status \notin {"approved", "rejected"}
    THEN {"Status must be approved or rejected"} ELSE {}

\* LeaveRequest.findById(id)
FindById(id) == IF id \in DOMAIN requests THEN {id} ELSE {}

\* variant: the decision does not record who made it
DecisionUnsigned(status, caller, t, comments) ==
    [status |-> status, approvedBy |-> NoUser, approvedAt |-> t,
     comments |-> comments]

\* the sub-approval a decision writes
Decision(status, caller, t, comments) ==
    [status |-> status, approvedBy |-> caller, approvedAt |-> t,
     comments |-> comments]

\* if (user.role === 'manager' || user.role === 'admin')
SetsManagerApproval(role) == role \in {"manager", "admin"}

\* variant: every approver's decision is also the coordinator's
SetsCoordinatorApprovalAnyApprover(role) ==
    role \in {"manager", "coordinator", "admin"}

\* if (user.role === 'coordinator' || user.role === 'admin')
SetsCoordinatorApproval(role) == role \in {"coordinator", "admin"}

\* variant: a sub-approval is written only while it is pending
UpdateApprovalsIfPending(doc, role, status, caller, t, comments) ==
    [doc EXCEPT
        !.managerApproval =
            IF SetsManagerApproval(role) /\ @.status = "pending"
            THEN Decision(status, caller, t, comments) ELSE @,
        !.coordinatorApproval =
            IF SetsCoordinatorApproval(role) /\ @.status = "pending"
            THEN Decision(status, caller, t, comments) ELSE @]

\* "Update approval based on role"
UpdateApprovals(doc, role, status, caller, t, comments) ==
    [doc EXCEPT
        !.managerApproval =
            IF SetsManagerApproval(role)
            THEN Decision(status, caller, t, comments) ELSE @,
        !.coordinatorApproval =
            IF SetsCoordinatorApproval(role)
            THEN Decision(status, caller, t, comments) ELSE @]

\* variant: a rejection also releases the days of the request
UpdateOverallStatusReleasingDays(doc, status) ==
    IF status = "rejected" THEN [doc EXCEPT !.status = "rejected", !.totalDays = 0]
    ELSE IF /\ doc.managerApproval.status = "approved"
            /\ doc.coordinatorApproval.status = "approved"
    THEN [doc EXCEPT !.status = "approved"]
    ELSE doc

\* variant: approved as soon as one of the two sub-approvals is approved
UpdateOverallStatusEither(doc, status) ==
    IF status = "rejected"
    THEN [doc EXCEPT !.status = "rejected"]
    ELSE IF doc.managerApproval.status = "approved"
            \/ doc.coordinatorApproval.status = "approved"
    THEN [doc EXCEPT !.status = "approved"]
    ELSE doc

\* variant: a rejection changes the overall status of a pending request only
UpdateOverallStatusIfPending(doc, status) ==
    IF status = "rejected" /\ doc.status = "pending"
    THEN [doc EXCEPT !.status = "rejected"]
    ELSE IF doc.managerApproval.status = "approved"
            /\ doc.coordinatorApproval.status = "approved"
    THEN [doc EXCEPT !.status = "approved"]
    ELSE doc

\* "Update overall status": assigned only in the two branches of the code
UpdateOverallStatus(doc, status) ==
    IF status = "rejected"
    THEN [doc EXCEPT !.status = "rejected"]
    ELSE IF doc.managerApproval.status = "approved"
            /\ doc.coordinatorApproval.status = "approved"
    THEN [doc EXCEPT !.status = "approved"]
    ELSE doc

\* the document the handler saves
DecidedRequest(doc, role, status, caller, t, comments) ==
    UpdateOverallStatus(UpdateApprovals(doc, role, status, caller, t, comments),
                        status)

\* the leave_approval e-mail to the owning employee
DecideMail(caller, doc, b, transportOk) ==
    sendEmailNotification(doc.employee, "leave_approval",
        [employeeName |-> doc.employee, leaveType |-> doc.leaveType,
         startDate |-> DateString(doc.startDate),
         endDate |-> DateString(doc.endDate),
         status |-> b.status, comments |-> b.comments, approvedBy |-> caller],
        transportOk)

\* `Leave request ${status} successfully`
DecideMessage(status) ==
    IF status = "approved" THEN "Leave request approved successfully"
    ELSE "Leave request rejected successfully"

\* res.json(...), reached when the awaited e-mail call returns
DecideResponse(status, doc, mail) ==
    Response(200, DecideMessage(status), NoErrors, {doc})

\* variant: the missing document is not tested for, and the handler's catch
\* block answers for the TypeError
DecideNotFoundUnchecked(id) ==
    Response(500, "Server error during approval", NoErrors, NoBody)

\* if (!leaveRequest) return res.status(404).json(...)
DecideNotFound(id) ==
    Response(404, "Leave request not found", NoErrors, NoBody)

\* variant: an approved request is charged to the ledger entry of its
\* employee, academic year and leave type
DecidedLedgerCharged(doc) ==
    IF doc.status # "approved" THEN balances
    ELSE {IF /\ lb.employee = doc.employee
             /\ lb.academicYear = doc.academicYear
             /\ lb.leaveType = doc.leaveType
          THEN [lb EXCEPT !.used = @ + doc.totalDays,
                          !.remaining = @ - doc.totalDays]
          ELSE lb : lb \in balances}

\* the LeaveBalance collection after a decision is saved: the handler writes
\* the LeaveRequest and nothing else
DecidedLedger(doc) == balances

Decide(caller, id, b) ==
    LET denied == AuthFailure(caller)
        forbidden == AuthorizeFailure(caller, {"manager", "coordinator", "admin"})
        errors == DecideErrors(b)
        found == FindById(id)
    IN  /\ UNCHANGED <<now, handlers>>
        /\ balances' = (IF denied = {} /\ forbidden = {} /\ errors = {} /\ found # {}
                        THEN DecidedLedger(DecidedRequest(requests[id], Role(caller),
                                               b.status, caller, now, b.comments))
                        ELSE balances)
        /\ IF denied # {}
           THEN /\ last' = Handled("decide", caller, id, {b}, CHOOSE r \in denied : TRUE, NoMail)
                /\ UNCHANGED requests
           ELSE IF forbidden # {}
           THEN /\ last' = Handled("decide", caller, id, {b}, CHOOSE r \in forbidden : TRUE, NoMail)
                /\ UNCHANGED requests
           ELSE IF errors # {}
           THEN /\ last' = Handled("decide", caller, id, {b},
                                   Response(400, "", errors, NoBody), NoMail)
                /\ UNCHANGED requests
           ELSE IF found = {}
           THEN /\ last' = Handled("decide", caller, id, {b}, DecideNotFound(id), NoMail)
                /\ UNCHANGED requests
           ELSE LET doc == DecidedRequest(requests[id], Role(caller), b.status,
                                          caller, now, b.comments)
                IN  /\ requests' = [requests EXCEPT ![id] = doc]
                    /\ \E transportOk \in BOOLEAN :
                          last' = Handled("decide", caller, id, {b},
                                          DecideResponse(b.status, doc,
                                              DecideMail(caller, doc, b, transportOk)),
                                          DecideMail(caller, doc, b, transportOk))

----------------------------------------------------------------------------
(* PUT /cancel/:id *)

\* variant: the query has no status filter
FindCancellableAnyStatus(id, caller) ==
    {k \in DOMAIN requests : k = id /\ requests[k].employee = caller}

\* LeaveRequest.findOne({_id: id, employee: req.userId, status: 'pending'})
FindCancellable(id, caller) ==
    {k \in DOMAIN requests :
        /\ k = id
        /\ requests[k].employee = caller
        /\ requests[k].status = "pending"}

\* variant: a request of another employee is answered with 403
CancelForbiddenForOthers(id, caller) ==
    IF id \in DOMAIN requests /\ requests[id].employee # caller
    THEN Response(403, "Access denied. Insufficient permissions.", NoErrors, NoBody)
    ELSE Response(404, "Leave request not found or cannot be cancelled",
                  NoErrors, NoBody)

\* res.status(404).json({message: ...}): one response, whatever made the
\* query match nothing
CancelNotFound(id, caller) ==
    Response(404, "Leave request not found or cannot be cancelled",
             NoErrors, NoBody)

\* leaveRequest.status = 'cancelled'
Cancelled(doc) == [doc EXCEPT !.status = "cancelled"]

\* variant: every pending request is written as cancelled
CancelStoreAllPending(id) ==
    [k \in DOMAIN requests |->
        IF requests[k].status = "pending"
        THEN [requests[k] EXCEPT !.status = "cancelled"] ELSE requests[k]]

\* variant: the cancelled request is deleted from the collection
CancelStoreDeleting(id) ==
    SubSeq(requests, 1, id - 1) \o SubSeq(requests, id + 1, Len(requests))

\* await leaveRequest.save(): the collection after the cancellation
CancelStore(id) == [requests EXCEPT ![id] = Cancelled(requests[id])]

Cancel(caller, id) ==
    LET denied == AuthFailure(caller)
        found == FindCancellable(id, caller)
    IN  /\ UNCHANGED <<balances, now, handlers>>
        /\ IF denied # {}
           THEN /\ last' = Handled("cancel", caller, id, NoArg, CHOOSE r \in denied : TRUE, NoMail)
                /\ UNCHANGED requests
           ELSE IF found = {}
           THEN /\ last' = Handled("cancel", caller, id, NoArg,
                                   CancelNotFound(id, caller), NoMail)
                /\ UNCHANGED requests
           ELSE LET doc == Cancelled(requests[id])
                IN  /\ requests' = CancelStore(id)
                    /\ last' = Handled("cancel", caller, id, NoArg,
                                       Response(200, "Leave request cancelled successfully",
                                                NoErrors, {doc}),
                                       NoMail)

----------------------------------------------------------------------------
(* The database rejects an operation: the awaited call throws and the catch *)
(* block of the handler answers.                                             *)

\* PUT /approve/:id when findById or save() throws: nothing is written
DecideFaulted(caller, id, b) ==
    /\ AuthFailure(caller) = {}
    /\ AuthorizeFailure(caller, {"manager", "coordinator", "admin"}) = {}
    /\ DecideErrors(b) = {}
    /\ last' = Handled("decide", caller, id, {b},
                       Response(500, "Server error during approval", NoErrors, NoBody),
                       NoMail)
    /\ UNCHANGED <<requests, balances, now, handlers>>

\* PUT /cancel/:id when findOne or save() throws: nothing is written
CancelFaulted(caller, id) ==
    /\ AuthFailure(caller) = {}
    /\ last' = Handled("cancel", caller, id, NoArg,
                       Response(500, "Server error during cancellation", NoErrors, NoBody),
                       NoMail)
    /\ UNCHANGED <<requests, balances, now, handlers>>

----------------------------------------------------------------------------
(* GET /records/:academicYear *)

\* User.findOne({ employeeId })
FindUserByEmployeeId(employeeId) ==
    {u \in UserIds \cup {Deactivated} : EmployeeId(u) = employeeId}

\* variant: an employeeId that names no user matches no request
RecordsQueryKnownOnly(caller, academicYear, employeeId) ==
    {k \in DOMAIN requests :
        /\ requests[k].academicYear = academicYear
        /\ IF /\ employeeId # ""
              /\ Role(caller) \in {"manager", "coordinator", "admin"}
           THEN requests[k].employee \in FindUserByEmployeeId(employeeId)
           ELSE requests[k].employee = caller}

\* the query: the academic year, and the employee that employeeId names for
\* an approver, if it names one; the caller for everybody else
RecordsQuery(caller, academicYear, employeeId) ==
    {k \in DOMAIN requests :
        /\ requests[k].academicYear = academicYear
        /\ IF /\ employeeId # ""
              /\ Role(caller) \in {"manager", "coordinator", "admin"}
           THEN FindUserByEmployeeId(employeeId) # {} =>
                    requests[k].employee \in FindUserByEmployeeId(employeeId)
           ELSE requests[k].employee = caller}

\* .sort({ startDate: -1 }): the orders of the found documents with the
\* latest start first; documents with the same start in any order
LatestStartFirst(ids) ==
    {list \in [1..Cardinality(ids) -> ids] :
        /\ \A i, j \in DOMAIN list : i # j => list[i] # list[j]
        /\ \A i, j \in DOMAIN list :
              i < j => requests[list[i]].startDate >= requests[list[j]].startDate}

ListRecords(caller, academicYear, employeeId) ==
    LET denied == AuthFailure(caller)
        found == RecordsQuery(caller, academicYear, employeeId)
        q == [academicYear |-> academicYear, employeeId |-> employeeId]
    IN  /\ UNCHANGED <<requests, balances, now, handlers>>
        /\ IF denied # {}
           THEN last' = Handled("listRecords", caller, 0, {q},
                                CHOOSE r \in denied : TRUE, NoMail)
           ELSE \E order \in LatestStartFirst(found) :
                   last' = Handled("listRecords", caller, 0, {q},
                                   Response(200, "", NoErrors,
                                      {[i \in DOMAIN order |-> ListEntry(order[i])]}),
                                   NoMail)

----------------------------------------------------------------------------
(* Calls that overlap: `await LeaveRequest.findById(...)` and                 *)
(* `await leaveRequest.save()` are two steps of a handler, and the steps of  *)
(* other handlers may run between them.                                       *)

\* the paths PUT /approve/:id has modified on its copy of the document
DecideModified(role, loaded, local) ==
    (IF SetsManagerApproval(role) THEN {"managerApproval"} ELSE {})
    \cup (IF SetsCoordinatorApproval(role) THEN {"coordinatorApproval"} ELSE {})
    \cup (IF local.status # loaded.status THEN {"status"} ELSE {})

\* leaveRequest.save(): the modified paths of the handler's copy are written
\* over the stored document, with no test of what is stored
Save(stored, local, paths) ==
    [f \in DOMAIN stored |-> IF f \in paths THEN local[f] ELSE stored[f]]

\* a handler between its read and its save
Reading(op, caller, id, arg, loaded, runs) ==
    [pc |-> "read", op |-> op, caller |-> caller, id |-> id, arg |-> arg,
     doc |-> {loaded}, runs |-> runs + 1]

\* PUT /approve/:id up to `await LeaveRequest.findById(id)`; a call that is
\* answered without a save is answered here
DecideRead(s, caller, id, b) ==
    /\ handlers[s].pc # "read"
    /\ handlers[s].runs < MaxRuns
    /\ IF \/ AuthFailure(caller) # {}
          \/ AuthorizeFailure(caller, {"manager", "coordinator", "admin"}) # {}
          \/ DecideErrors(b) # {}
          \/ FindById(id) = {}
       THEN Decide(caller, id, b)
       ELSE /\ handlers' = [handlers EXCEPT ![s] =
                               Reading("decide", caller, id, {b}, requests[id],
                                       handlers[s].runs)]
            /\ UNCHANGED <<requests, balances, now, last>>

\* PUT /approve/:id from the assignments to the response
DecideWrite(s) ==
    /\ handlers[s].pc = "read"
    /\ handlers[s].op = "decide"
    /\ LET h == handlers[s]
           b == CHOOSE x \in h.arg : TRUE
           loaded == CHOOSE d \in h.doc : TRUE
           local == DecidedRequest(loaded, Role(h.caller), b.status, h.caller,
                                   now, b.comments)
       IN  /\ requests' = [requests EXCEPT ![h.id] =
                              Save(@, local,
                                   DecideModified(Role(h.caller), loaded, local))]
           /\ \E transportOk \in BOOLEAN :
                 last' = Handled("decide", h.caller, h.id, h.arg,
                                 DecideResponse(b.status, local,
                                     DecideMail(h.caller, local, b, transportOk)),
                                 DecideMail(h.caller, local, b, transportOk))
           /\ handlers' = [handlers EXCEPT ![s].pc = "done"]
           /\ balances' = DecidedLedger(local)
           /\ UNCHANGED now

\* PUT /cancel/:id up to `await LeaveRequest.findOne(...)`
CancelRead(s, caller, id) ==
    /\ handlers[s].pc # "read"
    /\ handlers[s].runs < MaxRuns
    /\ IF AuthFailure(caller) # {} \/ FindCancellable(id, caller) = {}
       THEN Cancel(caller, id)
       ELSE /\ handlers' = [handlers EXCEPT ![s] =
                               Reading("cancel", caller, id, NoArg, requests[id],
                                       handlers[s].runs)]
            /\ UNCHANGED <<requests, balances, now, last>>

\* PUT /cancel/:id from the assignment to the response
CancelWrite(s) ==
    /\ handlers[s].pc = "read"
    /\ handlers[s].op = "cancel"
    /\ LET h == handlers[s]
           loaded == CHOOSE d \in h.doc : TRUE
           local == Cancelled(loaded)
       IN  /\ requests' = [requests EXCEPT ![h.id] = Save(@, local, {"status"})]
           /\ last' = Handled("cancel", h.caller, h.id, NoArg,
                              Response(200, "Leave request cancelled successfully",
                                       NoErrors, {local}),
                              NoMail)
           /\ handlers' = [handlers EXCEPT ![s].pc = "done"]
           /\ UNCHANGED <<balances, now>>

----------------------------------------------------------------------------
(* The clock *)

Tick ==
    /\ now < MaxNow
    /\ now' = now + 1
    /\ UNCHANGED <<requests, balances, last, handlers>>

----------------------------------------------------------------------------
(* The callers and the inputs *)

Callers == UserIds \cup {NoSession}

Ids == 1..(MaxRequests + 1)

Dates == 0..MaxDate

DecideBodies ==
    [status : {"approved", "rejected", "pending"}, comments : {NoComment}]

Balance(employee, year, leaveType, totalAllocated, used) ==
    [employee |-> employee, academicYear |-> year, leaveType |-> leaveType,
     totalAllocated |-> totalAllocated, used |-> used,
     remaining |-> totalAllocated - used]

NoCall ==
    Handled("none", NoSession, 0, NoArg, Response(0, "", NoErrors, NoBody), NoMail)

\* the handlers that may run at the same time
Slots == {"h1", "h2"}

\* a handler that has not been called
Idle == [pc |-> "idle", op |-> "none", caller |-> NoUser, id |-> 0,
         arg |-> NoArg, doc |-> {}, runs |-> 0]

NoHandlers == [s \in Slots |-> Idle]

----------------------------------------------------------------------------
(* Spec, the approval workflow: any sequence of submit, decide and cancel  *)
(* calls by any caller, at one instant of the clock.                       *)

Submitters == {"e1", "m1", NoSession}

WorkflowBodies ==
    [leaveType : {"sick", "holiday"}, startDate : {2}, endDate : {2, 3},
     reason : {<<"family">>}, academicYear : {""}]

Init ==
    /\ requests = <<>>
    /\ balances = {Balance("e1", "Y0", "sick", 5, 2)}
    /\ now = 1
    /\ last = NoCall
    /\ handlers = NoHandlers

Next ==
    \/ \E caller \in Submitters, b \in WorkflowBodies : Submit(caller, b)
    \/ \E caller \in Callers \cup {Deactivated}, id \in Ids, b \in DecideBodies :
          Decide(caller, id, b)
    \/ \E caller \in Callers, id \in Ids : Cancel(caller, id)

Spec == Init /\ [][Next]_vars

----------------------------------------------------------------------------
(* SpecSubmit, the validator: submissions of every body by the signed-in  *)
(* employee e1, as the clock advances, against a balance ledger that has   *)
(* or lacks an entry.                                                      *)

WellFormedBodies ==
    [leaveType : {"sick"}, startDate : Dates, endDate : Dates,
     reason : {<<"family">>}, academicYear : {""}]
    \cup [leaveType : {"sick"}, startDate : Dates, endDate : {MaxDate},
          reason : {<<"family">>}, academicYear : {"Y1"}]

MalformedBodies ==
    {[leaveType |-> "holiday", startDate |-> 2, endDate |-> 2,
      reason |-> <<"family">>, academicYear |-> ""],
     [leaveType |-> "sick", startDate |-> BadDate, endDate |-> 2,
      reason |-> <<"family">>, academicYear |-> ""],
     [leaveType |-> "sick", startDate |-> 3, endDate |-> 2,
      reason |-> <<>>, academicYear |-> ""],
     [leaveType |-> "sick", startDate |-> 2, endDate |-> 4,
      reason |-> <<Blank>>, academicYear |-> ""],
     [leaveType |-> "holiday", startDate |-> BadDate, endDate |-> BadDate,
      reason |-> <<>>, academicYear |-> "Y1"]}

SubmitBodies == WellFormedBodies \cup MalformedBodies

InitBalances ==
    {{}, {Balance("e1", "Y0", "sick", 5, 3)}}

InitSubmit ==
    /\ requests = <<>>
    /\ balances \in InitBalances
    /\ now = 0
    /\ last = NoCall
    /\ handlers = NoHandlers

NextSubmit ==
    \/ \E b \in SubmitBodies : Submit("e1", b)
    \/ Tick

SpecSubmit == InitSubmit /\ [][NextSubmit]_vars

----------------------------------------------------------------------------
(* The approval of one request by calls that overlap. *)

RaceBodies ==
    [leaveType : {"sick"}, startDate : {2}, endDate : {3},
     reason : {<<"family">>}, academicYear : {""}]

RaceDecisions ==
    [status : {"approved", "rejected"}, comments : {NoComment}]

InitRace ==
    /\ requests = <<>>
    /\ balances = {}
    /\ now = 1
    /\ last = NoCall
    /\ handlers = NoHandlers

NextRace ==
    \/ \E b \in RaceBodies : Submit("e1", b)
    \/ \E s \in Slots, caller \in {"m1", "c1", "a1"}, id \in 1..MaxRequests,
          b \in RaceDecisions : DecideRead(s, caller, id, b)
    \/ \E s \in Slots : DecideWrite(s)
    \/ \E s \in Slots, id \in 1..MaxRequests : CancelRead(s, "e1", id)
    \/ \E s \in Slots : CancelWrite(s)

SpecRace == InitRace /\ [][NextRace]_vars

----------------------------------------------------------------------------
(* Two stored requests of two employees: decisions, cancellations, faults of *)
(* the database and the records of an academic year.                         *)

ScopeBodies ==
    [leaveType : {"sick"}, startDate : {2}, endDate : {4},
     reason : {<<"family">>}, academicYear : {"", "Y1"}]

ScopeIds == 1..(MaxRequests + 2)

EmployeeIdInputs == {"", "E1", "M1", "ZZ"}

\* e1 and m1 have each submitted one request
InitScope ==
    /\ \E b \in ScopeBodies :
          requests = <<SubmittedRequest("e1", [b EXCEPT !.academicYear = ""], 1),
                       SubmittedRequest("m1", b, 1)>>
    /\ balances = {}
    /\ now = 1
    /\ last = NoCall
    /\ handlers = NoHandlers

NextScope ==
    \/ \E caller \in {"m1", "c1"}, id \in ScopeIds, b \in RaceDecisions :
          Decide(caller, id, b)
    \/ \E caller \in {"e1", "m1"}, id \in ScopeIds : Cancel(caller, id)
    \/ \E caller \in {"m1", "c1"}, id \in ScopeIds, b \in RaceDecisions :
          DecideFaulted(caller, id, b)
    \/ \E caller \in {"e1", "m1"}, id \in ScopeIds : CancelFaulted(caller, id)
    \/ \E caller \in {"e1", "m1", NoSession}, academicYear \in {"Y0", "Y1"},
          employeeId \in EmployeeIdInputs :
             ListRecords(caller, academicYear, employeeId)

SpecScope == InitScope /\ [][NextScope]_vars

----------------------------------------------------------------------------
(* Submissions of one employee against one ledger entry. *)

LedgerBodies ==
    [leaveType : {"sick"}, startDate : {2, 3}, endDate : {4},
     reason : {<<"family">>}, academicYear : {"", "Y1"}]

InitLedger ==
    /\ requests = <<>>
    /\ balances = {Balance("e1", "Y0", "sick", 5, 2)}
    /\ now = 1
    /\ last = NoCall
    /\ handlers = NoHandlers

NextLedger ==
    \/ \E b \in LedgerBodies : SubmitWithin("e1", b, MaxRequests + 1)
    \/ \E caller \in {"m1", "c1"}, id \in 1..(MaxRequests + 1), b \in RaceDecisions :
          Decide(caller, id, b)
    \/ \E id \in 1..(MaxRequests + 1) : Cancel("e1", id)

SpecLedger == InitLedger /\ [][NextLedger]_vars

----------------------------------------------------------------------------
(* The decisions on one request, with comments, as time passes. *)

CommentedDecisions ==
    [status : {"approved", "rejected"}, comments : {NoComment, "seen"}]

\* a body whose status is none of the two that the validator accepts
Undecided == {[status |-> "pending", comments |-> NoComment]}

InitDecide ==
    /\ requests = <<>>
    /\ balances = {}
    /\ now = 1
    /\ last = NoCall
    /\ handlers = NoHandlers

NextDecide ==
    \/ \E b \in RaceBodies : requests = <<>> /\ Submit("e1", b)
    \/ \E caller \in {"m1", "c1", "a1"}, b \in CommentedDecisions \cup Undecided :
          requests # <<>> /\ Decide(caller, 1, b)
    \/ requests # <<>> /\ Cancel("e1", 1)
    \/ Tick

SpecDecide == InitDecide /\ [][NextDecide]_vars

----------------------------------------------------------------------------
(* The workflow with its two lists. *)

ListBodies ==
    [leaveType : {"sick"}, startDate : {2}, endDate : {4},
     reason : {<<"family">>, <<Blank, "family", Blank>>, <<Blank>>},
     academicYear : {"", "Y1"}]

ListQueries ==
    {DefaultQuery,
     [DefaultQuery EXCEPT !.status = "approved"],
     [DefaultQuery EXCEPT !.academicYear = "Y1"],
     [DefaultQuery EXCEPT !.page = 2, !.limit = 1]}

InitList ==
    /\ requests = <<>>
    /\ balances = {}
    /\ now = 1
    /\ last = NoCall
    /\ handlers = NoHandlers

NextList ==
    \/ \E caller \in {"e1", "m1"}, b \in ListBodies : Submit(caller, b)
    \/ \E caller \in {"m1", "c1"}, id \in 1..MaxRequests, b \in RaceDecisions :
          Decide(caller, id, b)
    \/ \E id \in 1..MaxRequests : Cancel("e1", id)
    \/ \E caller \in {"e1", "m1", NoSession}, q \in ListQueries : ListMine(caller, q)
    \/ \E caller \in {"e1", "m1", "c1", "a1"} : ListPending(caller)

SpecList == InitList /\ [][NextList]_vars

----------------------------------------------------------------------------
(* Properties of the approval workflow *)

\* getApprovalStatus of the client: the overall status derived from the two
\* sub-approvals
getApprovalStatus(record) ==
    IF record.managerApproval.status = "rejected"
       \/ record.coordinatorApproval.status = "rejected"
    THEN "rejected"
    ELSE IF record.managerApproval.status = "approved"
            /\ record.coordinatorApproval.status = "approved"
    THEN "approved"
    ELSE "pending"

\* the call handled last is a successful decide with this decision
Decided(status) ==
    /\ last.op = "decide"
    /\ last.code = 200
    /\ \E b \in last.arg : b.status = status

\* a request nobody has decided on or cancelled
Fresh(doc) ==
    /\ doc.status = "pending"
    /\ doc.managerApproval = DefaultApproval
    /\ doc.coordinatorApproval = DefaultApproval

\* a fresh request after one approval by a manager, and nothing else
OnlyManagerApproved(doc) ==
    /\ doc.status = "pending"
    /\ doc.managerApproval.status = "approved"
    /\ doc.coordinatorApproval = DefaultApproval

\* a fresh request after one approval by a coordinator, and nothing else
OnlyCoordinatorApproved(doc) ==
    /\ doc.status = "pending"
    /\ doc.coordinatorApproval.status = "approved"
    /\ doc.managerApproval = DefaultApproval

\* C1: in every reachable state every request that is not cancelled has the
\* overall status that the derivation gives for its two sub-approvals:
\* rejected if one is rejected, else approved if both are approved, else
\* pending.
C1_StatusIsDerived ==
    \A k \in DOMAIN requests :
        requests[k].status # "cancelled"
            => requests[k].status = getApprovalStatus(requests[k])

\* C2: on a fresh request an approval by a manager alone, or by a coordinator
\* alone, leaves the overall status pending; the approval of the other of
\* the two, applied next, makes the overall status approved, in either order.
C2_BothApprovalsApprove ==
    [][\A k \in DOMAIN requests :
          (Decided("approved")' /\ last'.id = k) =>
            /\ (Fresh(requests[k]) /\ Role(last'.caller) = "manager")
                  => OnlyManagerApproved(requests'[k])
            /\ (Fresh(requests[k]) /\ Role(last'.caller) = "coordinator")
                  => OnlyCoordinatorApproved(requests'[k])
            /\ (OnlyManagerApproved(requests[k]) /\ Role(last'.caller) = "coordinator")
                  => requests'[k].status = "approved"
            /\ (OnlyCoordinatorApproved(requests[k]) /\ Role(last'.caller) = "manager")
                  => requests'[k].status = "approved"]_vars

\* a coordinator's approval has just completed a manager's: the request is
\* approved
C2_Witness ==
    /\ Decided("approved")
    /\ Role(last.caller) = "coordinator"
    /\ last.id \in DOMAIN requests
    /\ requests[last.id].status = "approved"
    /\ requests[last.id].managerApproval.approvedBy = "m1"

\* C3: after a successful decide call with decision rejected, by a manager,
\* a coordinator or an admin, the overall status of the request is rejected,
\* whatever the other sub-approval is.
C3_RejectionRejects ==
    Decided("rejected") =>
        /\ last.id \in DOMAIN requests
        /\ requests[last.id].status = "rejected"

\* a coordinator has just rejected a request that the manager had approved
C3_Witness ==
    /\ Decided("rejected")
    /\ Role(last.caller) = "coordinator"
    /\ last.id \in DOMAIN requests
    /\ requests[last.id].managerApproval.status = "approved"
    /\ requests[last.id].status = "rejected"

\* C4: once the overall status of a request is rejected, no call changes it.
C4_RejectedIsTerminal ==
    [][\A k \in DOMAIN requests :
          requests[k].status = "rejected" => requests'[k].status = "rejected"]_vars

\* C5: once the overall status of a request is approved, no call changes it.
C5_ApprovedIsTerminal ==
    [][\A k \in DOMAIN requests :
          requests[k].status = "approved" => requests'[k].status = "approved"]_vars

\* C6: once the overall status of a request is cancelled, no call changes it.
C6_CancelledIsTerminal ==
    [][\A k \in DOMAIN requests :
          requests[k].status = "cancelled" => requests'[k].status = "cancelled"]_vars

\* the request that cancel(id, caller) may cancel: it exists, the caller
\* owns it and it is pending
Cancellable(id, caller) ==
    /\ id \in DOMAIN requests
    /\ requests[id].employee = caller
    /\ requests[id].status = "pending"

\* C7: a cancel call by a signed-in user succeeds, and sets the status of the
\* request to cancelled and nothing else, only when the request exists, the
\* caller owns it and its status is pending; in every other case the call
\* fails with 404 and no request changes.
C7_CancelGuard ==
    [][(last'.op = "cancel" /\ last'.caller \in UserIds) =>
          IF Cancellable(last'.id, last'.caller)
          THEN /\ last'.code = 200
               /\ requests' = [requests EXCEPT ![last'.id].status = "cancelled"]
          ELSE /\ last'.code = 404
               /\ requests' = requests]_vars

\* the owner's cancel of an approved request has just failed
C7_Witness ==
    /\ last.op = "cancel"
    /\ last.code = 404
    /\ last.id \in DOMAIN requests
    /\ requests[last.id].employee = last.caller
    /\ requests[last.id].status = "approved"

\* what a caller sees of a handled call
Seen(call) ==
    [code |-> call.code, message |-> call.message, errors |-> call.errors,
     body |-> call.body]

\* C8: a failed cancel call of a signed-in user has one and the same response
\* when no request has the id, when the request belongs to another employee
\* and when the caller's own request is not pending.
C8_CancelFailuresAlike ==
    (last.op = "cancel" /\ last.caller \in UserIds) =>
        LET notFound == Response(404, "Leave request not found or cannot be cancelled",
                                 NoErrors, NoBody)
        IN  /\ last.id \notin DOMAIN requests => Seen(last) = notFound
            /\ (last.id \in DOMAIN requests
                /\ requests[last.id].employee # last.caller) => Seen(last) = notFound
            /\ (last.id \in DOMAIN requests
                /\ requests[last.id].employee = last.caller
                /\ last.code # 200) => Seen(last) = notFound

\* a cancel of a request of another employee has just failed
C8_Witness ==
    /\ last.op = "cancel"
    /\ last.caller \in UserIds
    /\ last.code = 404
    /\ last.id \in DOMAIN requests
    /\ requests[last.id].employee # last.caller

\* C9: the request that a successful submit has created has status pending,
\* both sub-approvals pending with no approvedBy and no approvedAt, and the
\* submitting user as its employee.
C9_SubmittedIsPending ==
    (last.op = "submit" /\ last.code = 201) =>
        /\ last.id \in DOMAIN requests
        /\ requests[last.id].status = "pending"
        /\ requests[last.id].managerApproval.status = "pending"
        /\ requests[last.id].managerApproval.approvedBy = NoUser
        /\ requests[last.id].managerApproval.approvedAt = NoTime
        /\ requests[last.id].coordinatorApproval.status = "pending"
        /\ requests[last.id].coordinatorApproval.approvedBy = NoUser
        /\ requests[last.id].coordinatorApproval.approvedAt = NoTime
        /\ requests[last.id].employee = last.caller

\* an employee's request has just been stored and its manager notified
C9_Witness ==
    /\ last.op = "submit"
    /\ last.code = 201
    /\ last.id \in DOMAIN requests
    /\ requests[last.id].employee = "e1"
    /\ \E mail \in last.mail : mail.to = "m1"

----------------------------------------------------------------------------
(* Properties of the validator *)

\* C10: a submit call of a signed-in user whose body passes the validator
\* chain and has startDate >= endDate, equal dates included, fails with
\* "End date must be after start date"; no request is stored and no e-mail
\* is dispatched.
C10_InvalidRangeRejected ==
    [][\A b \in last'.arg :
          (/\ last'.op = "submit"
           /\ last'.caller \in UserIds
           /\ SubmitErrors(b) = {}
           /\ b.startDate >= b.endDate) =>
             /\ last'.code = 400
             /\ last'.message = "End date must be after start date"
             /\ last'.body = NoBody
             /\ last'.mail = NoMail
             /\ requests' = requests]_vars

\* a submission with startDate = endDate has just been rejected
C10_Witness ==
    /\ last.op = "submit"
    /\ last.code = 400
    /\ last.message = "End date must be after start date"
    /\ \E b \in last.arg : b.startDate = b.endDate /\ b.startDate >= now
    /\ Len(requests) > 0

----------------------------------------------------------------------------
(* Properties of the date rules, the day count and the balance check.      *)

\* a submit call by a signed-in caller whose body passes the validator chain
WellFormedSubmit(call, b) ==
    /\ call.op = "submit"
    /\ call.caller \in UserIds
    /\ b \in call.arg
    /\ SubmitErrors(b) = {}

\* C11 as stated: every submit whose startDate is earlier than the current
\* moment fails with "Cannot request leave for past dates" and persists
\* nothing, whatever its endDate.
C11_PastStartRejected ==
    [][\A b \in last'.arg :
          (/\ WellFormedSubmit(last', b)
           /\ now' = now
           /\ b.startDate < now) =>
             /\ last'.code = 400
             /\ last'.message = "Cannot request leave for past dates"
             /\ requests' = requests]_vars

\* C11 amended: every submit whose startDate is earlier than both its endDate
\* and the current moment fails with "Cannot request leave for past dates";
\* when startDate is not earlier than endDate the range error is answered
\* instead; in both cases no LeaveRequest is persisted and no e-mail is sent.
C11_PastStartInRangeRejected ==
    [][\A b \in last'.arg :
          (/\ WellFormedSubmit(last', b)
           /\ now' = now
           /\ b.startDate < now) =>
             /\ last'.code = 400
             /\ last'.message = IF b.startDate < b.endDate
                                THEN "Cannot request leave for past dates"
                                ELSE "End date must be after start date"
             /\ last'.body = NoBody
             /\ last'.mail = NoMail
             /\ requests' = requests]_vars

\* a range that is in order and starts in the past has been rejected
C11_Witness ==
    /\ last.op = "submit"
    /\ last.message = "Cannot request leave for past dates"
    /\ \E b \in last.arg : b.startDate < b.endDate /\ b.startDate < now
    /\ requests = <<>>

\* a date without a time of day: midnight, a whole number of days
DateOnly(d) == d % DayUnits = 0

\* the document the call handled last has stored
Persisted(call) ==
    IF call.id \in DOMAIN requests THEN {requests[call.id]} ELSE {}

\* C12: an accepted submission with date-only startDate < endDate persists
\* totalDays = (endDate - startDate in whole days) + 1, the inclusive count
\* of calendar days; two days apart gives 3.
C12_InclusiveDayCount ==
    (last.op = "submit" /\ last.code = 201) =>
        \A b \in last.arg :
            (DateOnly(b.startDate) /\ DateOnly(b.endDate)
             /\ b.startDate < b.endDate) =>
                /\ Persisted(last) # {}
                /\ \A doc \in Persisted(last) \cup last.body :
                       doc.totalDays
                         = (b.endDate \div DayUnits) - (b.startDate \div DayUnits) + 1

\* the submission of the first to the third day has been stored with 3 days
C12_Witness ==
    /\ last.op = "submit"
    /\ last.code = 201
    /\ \E b \in last.arg :
          /\ DateOnly(b.startDate) /\ DateOnly(b.endDate)
          /\ b.endDate - b.startDate = 2 * DayUnits
    /\ \E doc \in Persisted(last) : doc.totalDays = 3

\* C13: when endDate - startDate is not a whole number of days, the
\* persisted totalDays is that difference rounded up to whole days, plus 1;
\* a day and a half gives 3.
C13_PartialDayRoundsUp ==
    (last.op = "submit" /\ last.code = 201) =>
        \A b \in last.arg :
            ((b.endDate - b.startDate) % DayUnits # 0) =>
                /\ Persisted(last) # {}
                /\ \A doc \in Persisted(last) \cup last.body :
                       /\ (doc.totalDays - 1) * DayUnits > b.endDate - b.startDate
                       /\ (doc.totalDays - 2) * DayUnits < b.endDate - b.startDate

\* a submission of one day and a part of a day has been stored with 3 days
C13_Witness ==
    /\ last.op = "submit"
    /\ last.code = 201
    /\ \E b \in last.arg :
          /\ b.endDate - b.startDate > DayUnits
          /\ b.endDate - b.startDate < 2 * DayUnits
    /\ \E doc \in Persisted(last) : doc.totalDays = 3

\* a submit call that passes the validator chain and the two date rules, with
\* a reason that is not white space only
PassesDateRules(call, b) ==
    /\ WellFormedSubmit(call, b)
    /\ \E i \in 1..Len(b.reason) : b.reason[i] # Blank
    /\ b.startDate < b.endDate
    /\ b.startDate >= now

\* the ledger entries for the caller, the resolved academic year and the type
LedgerEntries(call, b) ==
    {lb \in balances : /\ lb.employee = call.caller
                       /\ lb.leaveType = b.leaveType
                       /\ lb.academicYear = (IF b.academicYear # ""
                                             THEN b.academicYear
                                             ELSE YearString(now))}

\* C14: a submit that passes the date rules, with a LeaveBalance entry for
\* (employee, resolved academicYear, leaveType) whose remaining is below
\* totalDays, fails with "Insufficient leave balance", persists nothing and
\* leaves the ledger as it was; with remaining >= totalDays it is not
\* rejected for balance.
C14_InsufficientBalanceRejected ==
    [][\A b \in last'.arg :
          (PassesDateRules(last', b) /\ now' = now) =>
             \A lb \in LedgerEntries(last', b) :
                IF lb.remaining < TotalDays(b.startDate, b.endDate)
                THEN /\ last'.code = 400
                     /\ last'.message = "Insufficient leave balance"
                     /\ last'.body = NoBody
                     /\ requests' = requests
                     /\ balances' = balances
                ELSE /\ last'.message # "Insufficient leave balance"
                     /\ last'.code = 201]_vars

\* a request for more days than remain has been rejected, and a request for
\* exactly the days that remain is what the ledger still allows
C14_Witness ==
    /\ last.op = "submit"
    /\ last.message = "Insufficient leave balance"
    /\ \E b \in last.arg : \E lb \in LedgerEntries(last, b) :
          lb.remaining + 1 = TotalDays(b.startDate, b.endDate)
    /\ requests = <<>>

\* C15: with no LeaveBalance entry for (employee, resolved academicYear,
\* leaveType) the balance check is skipped: a submit that passes the date
\* rules is accepted and persisted for any totalDays.
C15_NoEntryNoBalanceCheck ==
    [][\A b \in last'.arg :
          (/\ PassesDateRules(last', b)
           /\ now' = now
           /\ LedgerEntries(last', b) = {}) =>
             /\ last'.code = 201
             /\ Len(requests') = Len(requests) + 1
             /\ requests'[Len(requests')].totalDays
                  = TotalDays(b.startDate, b.endDate)
             /\ balances' = balances]_vars

\* a request of an academic year without a ledger entry has been accepted for
\* more days than the entry of another year has left
C15_Witness ==
    /\ last.op = "submit"
    /\ last.code = 201
    /\ \E b \in last.arg :
          /\ LedgerEntries(last, b) = {}
          /\ \E lb \in balances :
                /\ lb.employee = last.caller
                /\ lb.leaveType = b.leaveType
                /\ lb.remaining < TotalDays(b.startDate, b.endDate)
    /\ Persisted(last) # {}

----------------------------------------------------------------------------
(* Properties of a decision.                                                *)

\* a decide call by an approver whose body passes the validator chain
WellFormedDecide(call, b) ==
    /\ call.op = "decide"
    /\ call.caller \in UserIds
    /\ Role(call.caller) \in {"manager", "coordinator", "admin"}
    /\ b \in call.arg
    /\ DecideErrors(b) = {}

\* C16: a decide call on an id that resolves to no request is answered 404
\* "Leave request not found", changes no request and sends no e-mail.
C16_UnknownIdNotFound ==
    [][\A b \in last'.arg :
          (WellFormedDecide(last', b) /\ last'.id \notin DOMAIN requests) =>
             /\ last'.code = 404
             /\ last'.message = "Leave request not found"
             /\ last'.body = NoBody
             /\ last'.mail = NoMail
             /\ requests' = requests]_vars

\* a decision on an unknown id has been answered while a request is stored
C16_Witness ==
    /\ last.op = "decide"
    /\ last.code = 404
    /\ \E b \in last.arg : WellFormedDecide(last, b)
    /\ requests # <<>>
    /\ last.id \notin DOMAIN requests

\* C17: a successful decide by a manager sets managerApproval to the decision
\* and leaves coordinatorApproval as it was; by a coordinator it sets
\* coordinatorApproval and leaves managerApproval as it was; by an admin it
\* sets both sub-approvals to the same decision in the one call.
C17_RoleSetsItsApproval ==
    [][\A b \in last'.arg :
          (/\ WellFormedDecide(last', b)
           /\ last'.code = 200
           /\ last'.id \in DOMAIN requests) =>
             LET before == requests[last'.id]
                 after  == requests'[last'.id]
                 mine(a) == a.status = b.status /\ a.approvedBy = last'.caller
             IN  CASE Role(last'.caller) = "manager" ->
                        /\ mine(after.managerApproval)
                        /\ after.coordinatorApproval = before.coordinatorApproval
                   [] Role(last'.caller) = "coordinator" ->
                        /\ mine(after.coordinatorApproval)
                        /\ after.managerApproval = before.managerApproval
                   [] Role(last'.caller) = "admin" ->
                        /\ mine(after.managerApproval)
                        /\ after.coordinatorApproval = after.managerApproval]_vars

\* the manager has rejected a request that the coordinator had approved, and
\* the coordinator's approval is still on it
C17_Witness ==
    /\ last.op = "decide"
    /\ last.code = 200
    /\ Role(last.caller) = "manager"
    /\ \E doc \in Persisted(last) :
          /\ doc.managerApproval.status = "rejected"
          /\ doc.managerApproval.approvedBy = last.caller
          /\ doc.coordinatorApproval.status = "approved"
          /\ Role(doc.coordinatorApproval.approvedBy) = "coordinator"

----------------------------------------------------------------------------
(* Properties of calls that overlap.                                        *)

\* handler s saves in this step
Saves(s) ==
    handlers[s].pc = "read" /\ handlers'[s].pc = "done"

\* C18: when a mutation of a request saves after another mutation of the same
\* request has committed since its read, it is rejected with 409 Conflict and
\* writes nothing, so that of two overlapping mutations at most one commits.
C18_OverlapGivesConflict ==
    [][\A s \in Slots :
          (Saves(s) /\ handlers[s].doc # {requests[handlers[s].id]}) =>
             /\ last'.code = 409
             /\ requests' = requests]_vars

\* handler s has served one call, an approval by the given role, and answered
ApprovedBy(s, role) ==
    /\ handlers[s].pc = "done"
    /\ handlers[s].runs = 1
    /\ handlers[s].op = "decide"
    /\ Role(handlers[s].caller) = role
    /\ \A b \in handlers[s].arg : b.status = "approved"

\* C19: when an approval by the manager and an approval by the coordinator of
\* the same fresh request are the only calls on it and both have answered 200,
\* in whatever order their reads and saves ran, the stored request has both
\* sub-approvals approved and status approved.
C19_ConcurrentApprovalsApprove ==
    \A s, t \in Slots :
        (/\ ApprovedBy(s, "manager")
         /\ ApprovedBy(t, "coordinator")
         /\ handlers[s].id = handlers[t].id) =>
            LET doc == requests[handlers[s].id]
            IN  /\ doc.managerApproval.status = "approved"
                /\ doc.coordinatorApproval.status = "approved"
                /\ doc.status = "approved"

----------------------------------------------------------------------------
(* Properties of the notification.                                          *)

\* the e-mail of the call was handed to the service and not delivered
MailFailed(call) ==
    \E sent \in call.mail : ~sent.delivered

C21_MailFollowsCommit ==
    \A sent \in last.mail :
        /\ last.code \in {200, 201}
        /\ Persisted(last) # {}
        /\ \A doc \in Persisted(last) :
              CASE sent.template = "leave_request" ->
                     /\ last.op = "submit"
                     /\ last.code = 201
                     /\ doc.employee = last.caller
                     /\ Fresh(doc)
                     /\ sent.to \in UserIds
                     /\ sent.to = Manager(doc.employee)
                [] sent.template = "leave_approval" ->
                     /\ last.op = "decide"
                     /\ last.code = 200
                     /\ sent.to = doc.employee
                     /\ \/ /\ doc.managerApproval.status = sent.data.status
                           /\ doc.managerApproval.approvedBy = last.caller
                        \/ /\ doc.coordinatorApproval.status = sent.data.status
                           /\ doc.coordinatorApproval.approvedBy = last.caller
                [] OTHER -> FALSE

\* the rejection of a request is stored and its e-mail is on the way to the
\* employee
C21_Witness ==
    /\ last.op = "decide"
    /\ \E sent \in last.mail :
          /\ sent.template = "leave_approval"
          /\ sent.data.status = "rejected"
          /\ \E doc \in Persisted(last) :
                sent.to = doc.employee /\ doc.status = "rejected"

----------------------------------------------------------------------------
(* Properties of the lists.                                                 *)

\* the ids of the documents of a list
IdsOf(list) == {list[i]._id : i \in 1..Len(list)}

\* what GET /pending-approvals has answered to an approver of the given role
PendingListFor(role) ==
    IF last.op = "listPending" /\ last.code = 200 /\ Role(last.caller) = role
    THEN last.body ELSE {}

\* C22: the list of pending approvals of a manager holds exactly the requests
\* whose managerApproval.status or coordinatorApproval.status is pending, the
\* list of a coordinator exactly those whose coordinatorApproval.status is
\* pending; each request once, as it is stored.
C22_PendingListByRole ==
    /\ \A list \in PendingListFor("manager") :
          /\ IdsOf(list) = {k \in DOMAIN requests :
                               \/ requests[k].managerApproval.status = "pending"
                               \/ requests[k].coordinatorApproval.status = "pending"}
          /\ Len(list) = Cardinality(IdsOf(list))
          /\ \A i \in 1..Len(list) : list[i] = ListEntry(list[i]._id)
    /\ \A list \in PendingListFor("coordinator") :
          /\ IdsOf(list) = {k \in DOMAIN requests :
                               requests[k].coordinatorApproval.status = "pending"}
          /\ Len(list) = Cardinality(IdsOf(list))
          /\ \A i \in 1..Len(list) : list[i] = ListEntry(list[i]._id)

\* the manager is shown a request that the manager has decided and the
\* coordinator has not
C22_Witness ==
    \E list \in PendingListFor("manager") : \E i \in 1..Len(list) :
        /\ list[i].managerApproval.status = "approved"
        /\ list[i].coordinatorApproval.status = "pending"

\* the step lists the requests of the caller, with the default query, right
\* after the caller's first request has been accepted
ListsFirstRequest ==
    /\ last.op = "submit"
    /\ last.code = 201
    /\ {k \in DOMAIN requests : requests[k].employee = last.caller} = {last.id}
    /\ last'.op = "listMine"
    /\ last'.code = 200
    /\ last'.caller = last.caller
    /\ last'.arg = {DefaultQuery}

\* the entry of a list shows the values of the submitted body, given the
\* value that is expected for the reason
ShowsSubmitted(entry, b, reason) ==
    /\ entry.leaveType = b.leaveType
    /\ entry.startDate = b.startDate
    /\ entry.endDate = b.endDate
    /\ entry.reason = reason
    /\ b.academicYear # "" => entry.academicYear = b.academicYear
    /\ entry.status = "pending"
    /\ entry.managerApproval.status = "pending"
    /\ entry.coordinatorApproval.status = "pending"

\* no list of GET /my-requests holds a request of another employee
OnlyOwnRequests ==
    (last'.op = "listMine" /\ last'.code = 200) =>
        \A answer \in last'.body : \A i \in 1..Len(answer.leaveRequests) :
            answer.leaveRequests[i].employee = Populate(last'.caller)

\* r is str without the white space str begins and ends with
IsTrimOf(r, str) ==
    /\ r # <<>> => (r[1] # Blank /\ r[Len(r)] # Blank)
    /\ \E i \in 0..Len(str) :
          /\ i + Len(r) <= Len(str)
          /\ SubSeq(str, i + 1, i + Len(r)) = r
          /\ \A k \in 1..Len(str) :
                (k <= i \/ k > i + Len(r)) => str[k] = Blank

\* C23 as stated: the list of an employee right after the employee's first
\* accepted submission has exactly one entry, whose leaveType, startDate,
\* endDate, reason and academicYear are the submitted values, with status
\* and both sub-approvals pending; and no list holds a request of another
\* employee.
C23_ListShowsSubmission ==
    [][/\ ListsFirstRequest =>
             \A b \in last.arg, answer \in last'.body :
                /\ Len(answer.leaveRequests) = 1
                /\ ShowsSubmitted(answer.leaveRequests[1], b, b.reason)
       /\ OnlyOwnRequests]_vars

\* C23 amended: as stated, except that the reason of the entry is the
\* submitted reason without its leading and trailing white space.
C23_ListShowsTrimmedSubmission ==
    [][/\ ListsFirstRequest =>
             \A b \in last.arg, answer \in last'.body :
                /\ Len(answer.leaveRequests) = 1
                /\ answer.total = 1
                /\ answer.leaveRequests[1]._id = last.id
                /\ ShowsSubmitted(answer.leaveRequests[1], b,
                                  answer.leaveRequests[1].reason)
                /\ IsTrimOf(answer.leaveRequests[1].reason, b.reason)
       /\ OnlyOwnRequests]_vars

\* the list shows the one request of the caller, its reason without white
\* space around it
C23_Witness ==
    /\ last.op = "listMine"
    /\ last.arg = {DefaultQuery}
    /\ \E answer \in last.body :
          /\ Len(answer.leaveRequests) = 1
          /\ answer.leaveRequests[1].reason = <<"family">>
          /\ answer.leaveRequests[1].employee = Populate(last.caller)
          /\ answer.leaveRequests[1].status = "pending"

----------------------------------------------------------------------------
(* What the calls leave alone.                                              *)

\* the fields of a request that are given at its creation
CreationFields ==
    {"employee", "leaveType", "startDate", "endDate", "totalDays", "reason",
     "academicYear"}

\* C24: the employee, leaveType, startDate, endDate, totalDays, reason and
\* academicYear of a stored request are the same after every call as before.
C24_CreationFieldsKept ==
    [][\A k \in DOMAIN requests :
          /\ k \in DOMAIN requests'
          /\ \A f \in CreationFields : requests'[k][f] = requests[k][f]]_vars

\* a request has been decided by both approvers and rejected, and is the
\* request the employee created
C24_Witness ==
    /\ last.op = "decide"
    /\ last.code = 200
    /\ \E doc \in Persisted(last) :
          /\ doc.status = "rejected"
          /\ doc.managerApproval.status # "pending"
          /\ doc.coordinatorApproval.status # "pending"
          /\ doc.employee = "e1"
          /\ doc.totalDays = TotalDays(doc.startDate, doc.endDate)

C26_LedgerUntouched ==
    [][balances' = balances]_vars

\* a request is approved and the ledger entry of its employee, academic year
\* and leave type still has the days it had before the request was made
C26_Witness ==
    \E k \in DOMAIN requests : \E lb \in balances :
        /\ requests[k].status = "approved"
        /\ lb.employee = requests[k].employee
        /\ lb.academicYear = requests[k].academicYear
        /\ lb.leaveType = requests[k].leaveType
        /\ lb.totalAllocated = 5 /\ lb.used = 2 /\ lb.remaining = 3

----------------------------------------------------------------------------
(* Who decides, and in what order.                                          *)

\* C27: the coordinator's sub-approval of a request is pending for as long as
\* the manager's sub-approval is pending: the manager decides first.
C27_ManagerDecidesFirst ==
    \A k \in DOMAIN requests :
        requests[k].managerApproval.status = "pending" =>
            requests[k].coordinatorApproval.status = "pending"

\* C28: a decide call changes a request, or is answered 200, only when its
\* caller is a signed-in, active user with role manager, coordinator or
\* admin; without a session and for a deactivated user it is answered 401,
\* for an employee 403, and no request is changed.
C28_OnlyApproversDecide ==
    [][last'.op = "decide" =>
          /\ (requests' # requests \/ last'.code = 200) =>
                /\ last'.caller \in UserIds
                /\ IsActive(last'.caller)
                /\ Role(last'.caller) \in {"manager", "coordinator", "admin"}
          /\ last'.caller \in {NoSession, Deactivated} =>
                (last'.code = 401 /\ requests' = requests /\ last'.mail = NoMail)
          /\ (last'.caller \in UserIds /\ Role(last'.caller) = "employee") =>
                (last'.code = 403 /\ requests' = requests /\ last'.mail = NoMail)]_vars

\* the employee who owns a fresh request has tried to decide it and was
\* answered 403
C28_Witness ==
    /\ last.op = "decide"
    /\ last.code = 403
    /\ Role(last.caller) = "employee"
    /\ \E b \in last.arg : b.status \in {"approved", "rejected"}
    /\ \E doc \in Persisted(last) : doc.employee = last.caller /\ Fresh(doc)

\* C29: a decide call by a manager changes a request only when the manager
\* is the manager of the request's employee, and so never the manager's own
\* request.
C29_ManagerDecidesOwnTeam ==
    [][\A k \in DOMAIN requests :
          (/\ last'.op = "decide"
           /\ Role(last'.caller) = "manager"
           /\ requests'[k] # requests[k]) =>
              Manager(requests[k].employee) = last'.caller]_vars

\* C30: a decide call of an approver on a stored request is answered 200
\* whatever the sub-approval of its role holds, and leaves in that
\* sub-approval the status, approvedBy, approvedAt and comments of this
\* decision: a decision made before is overwritten.
C30_DecisionOverwrites ==
    [][\A b \in last'.arg :
          (/\ WellFormedDecide(last', b)
           /\ last'.id \in DOMAIN requests
           /\ now' = now) =>
              LET mine == [status |-> b.status, approvedBy |-> last'.caller,
                           approvedAt |-> now, comments |-> b.comments]
                  after == requests'[last'.id]
              IN  /\ last'.code = 200
                  /\ Role(last'.caller) \in {"manager", "admin"} =>
                        after.managerApproval = mine
                  /\ Role(last'.caller) \in {"coordinator", "admin"} =>
                        after.coordinatorApproval = mine]_vars

\* the manager's sub-approval holds a later decision of the manager, with a
\* comment, in place of the one the admin had written on both sub-approvals
C30_Witness ==
    /\ last.op = "decide"
    /\ last.code = 200
    /\ last.caller = "m1"
    /\ \E doc \in Persisted(last) :
          /\ doc.coordinatorApproval.approvedBy = "a1"
          /\ doc.managerApproval.approvedBy = "m1"
          /\ doc.managerApproval.status # doc.coordinatorApproval.status
          /\ doc.managerApproval.approvedAt > doc.coordinatorApproval.approvedAt
          /\ doc.managerApproval.comments = "seen"

----------------------------------------------------------------------------
(* Properties of calls that overlap, continued.                             *)

\* C32: a request whose stored status is approved or rejected is not stored
\* as cancelled by the next step, also when a cancel of its owner overlaps
\* the decisions on it.
C32_DecidedNeverCancelled ==
    [][\A k \in DOMAIN requests :
          requests[k].status \in {"approved", "rejected"} =>
              requests'[k].status # "cancelled"]_vars

\* C34: a stored request with status approved has both sub-approvals
\* approved, in every state that overlapping decide calls can reach.
C34_ApprovedHasBothApprovals ==
    \A k \in DOMAIN requests :
        requests[k].status = "approved" =>
            /\ requests[k].managerApproval.status = "approved"
            /\ requests[k].coordinatorApproval.status = "approved"

----------------------------------------------------------------------------
(* Properties of what is stored at submission.                              *)

\* C35: every stored request has startDate < endDate and totalDays >= 2; a
\* leave of one day, with startDate equal to endDate, which the form of the
\* client accepts and shows as 1 day, is refused by the server.
C35_NoOneDayLeave ==
    /\ \A k \in DOMAIN requests :
          /\ requests[k].startDate < requests[k].endDate
          /\ requests[k].totalDays >= 2
    /\ \A b \in last.arg :
          (WellFormedSubmit(last, b) /\ b.startDate = b.endDate) =>
              /\ ClientAccepts(b.startDate, b.endDate)
              /\ ClientTotalDays(b.startDate, b.endDate) = 1
              /\ last.code = 400
              /\ last.body = NoBody

\* a leave of one day that does not lie in the past has been refused
C35_Witness ==
    /\ last.op = "submit"
    /\ last.code = 400
    /\ \E b \in last.arg :
          /\ WellFormedSubmit(last, b)
          /\ b.startDate = b.endDate
          /\ b.startDate >= now
          /\ ClientTotalDays(b.startDate, b.endDate) = 1
    /\ requests = <<>>

\* C40: the academicYear of the body alone selects the ledger entry, and it
\* is the year that is stored: a submission that was refused for
\* insufficient balance is accepted, with the same dates and days, when it
\* is sent again, before its start date has passed, naming an academicYear
\* for which the employee has no entry of that leaveType.
C40_OtherYearEvadesBalance ==
    [][\A b \in last.arg, c \in last'.arg :
          (/\ last.op = "submit"
           /\ last.message = "Insufficient leave balance"
           /\ last'.op = "submit"
           /\ last'.caller = last.caller
           /\ now' = now
           /\ b.startDate >= now
           /\ c.academicYear # ""
           /\ c = [b EXCEPT !.academicYear = c.academicYear]
           /\ ~\E lb \in balances : /\ lb.employee = last'.caller
                                    /\ lb.academicYear = c.academicYear
                                    /\ lb.leaveType = c.leaveType) =>
              /\ last'.code = 201
              /\ Len(requests') = Len(requests) + 1
              /\ \A doc \in last'.body :
                    /\ requests'[Len(requests')] = doc
                    /\ doc.academicYear = c.academicYear
                    /\ doc.startDate = b.startDate
                    /\ doc.endDate = b.endDate
                    /\ \A lb \in LedgerEntries(last, b) :
                          doc.totalDays > lb.remaining
              /\ balances' = balances]_vars

\* a request is stored under an academic year without ledger entry, for more
\* days than the employee's entry of the current year has left
C40_Witness ==
    /\ last.op = "submit"
    /\ last.code = 201
    /\ \E b \in last.arg : b.academicYear = "Y1"
    /\ \E doc \in Persisted(last) : \E lb \in balances :
          /\ doc.academicYear = "Y1"
          /\ lb.academicYear = YearString(now)
          /\ lb.academicYear # doc.academicYear
          /\ lb.employee = doc.employee
          /\ lb.leaveType = doc.leaveType
          /\ lb.remaining < doc.totalDays

----------------------------------------------------------------------------
(* Properties of the list of pending approvals, continued.                  *)

\* C38: the list of pending approvals looks at the sub-approvals only, not
\* at the overall status: a cancelled or rejected request with a pending
\* sub-approval is listed for a manager, and for a coordinator when its
\* coordinator sub-approval is pending; the admin is listed every stored
\* request.
C38_PendingListIgnoresStatus ==
    /\ \A list \in PendingListFor("manager") :
          \A k \in DOMAIN requests :
              (/\ requests[k].status \in {"cancelled", "rejected"}
               /\ \/ requests[k].managerApproval.status = "pending"
                  \/ requests[k].coordinatorApproval.status = "pending") =>
                  k \in IdsOf(list)
    /\ \A list \in PendingListFor("coordinator") :
          \A k \in DOMAIN requests :
              (/\ requests[k].status \in {"cancelled", "rejected"}
               /\ requests[k].coordinatorApproval.status = "pending") =>
                  k \in IdsOf(list)
    /\ \A list \in PendingListFor("admin") : IdsOf(list) = DOMAIN requests

\* a manager is listed a cancelled request
C38_Witness ==
    \E list \in PendingListFor("manager") : \E i \in 1..Len(list) :
        /\ list[i].status = "cancelled"
        /\ requests[list[i]._id].status = "cancelled"

----------------------------------------------------------------------------
(* Properties of the sub-approvals.                                         *)

SubApprovals == {"managerApproval", "coordinatorApproval"}

\* C36: a sub-approval is pending exactly when its approvedBy and approvedAt
\* are empty; a sub-approval that is approved or rejected names in approvedBy
\* the caller of the decide call that wrote it, and no other step changes it.
C36_ApprovedByIsDecider ==
    [][\A k \in DOMAIN requests', f \in SubApprovals :
          LET sub == requests'[k][f]
          IN  /\ sub.status = "pending" <=>
                    (sub.approvedBy = NoUser /\ sub.approvedAt = NoTime)
              /\ sub.status \in {"approved", "rejected"} =>
                    \/ k \in DOMAIN requests /\ requests[k][f] = sub
                    \/ /\ last'.op = "decide"
                       /\ last'.code = 200
                       /\ last'.id = k
                       /\ sub.approvedBy = last'.caller]_vars

\* the coordinator has decided after the admin: the two sub-approvals name
\* different approvers
C36_Witness ==
    /\ last.op = "decide"
    /\ last.code = 200
    /\ last.caller = "c1"
    /\ \E doc \in Persisted(last) :
          /\ doc.managerApproval.approvedBy = "a1"
          /\ doc.coordinatorApproval.approvedBy = "c1"
          /\ doc.coordinatorApproval.approvedAt > doc.managerApproval.approvedAt

\* C37: a sub-approval that is no longer pending never becomes pending again:
\* a decide call whose status is neither approved nor rejected is answered
\* with a validation error and changes nothing, and a cancel call leaves the
\* sub-approvals as they are.
C37_NeverBackToPending ==
    [][/\ \A k \in DOMAIN requests, f \in SubApprovals :
             requests[k][f].status # "pending" =>
                 requests'[k][f].status # "pending"
       /\ \A b \in last'.arg :
             (/\ last'.op = "decide"
              /\ b.status \notin {"approved", "rejected"}) =>
                 /\ last'.code = 400
                 /\ last'.errors # NoErrors
                 /\ requests' = requests
       /\ last'.op = "cancel" =>
             \A k \in DOMAIN requests, f \in SubApprovals :
                 requests'[k][f] = requests[k][f]]_vars

\* a decide call with status pending on a request that the manager has
\* approved has been refused, and the approval stands
C37_Witness ==
    /\ last.op = "decide"
    /\ last.code = 400
    /\ last.caller = "m1"
    /\ \E b \in last.arg : b.status = "pending"
    /\ last.id \in DOMAIN requests
    /\ requests[last.id].managerApproval.status = "approved"
    /\ requests[last.id].managerApproval.approvedBy = "m1"

----------------------------------------------------------------------------
(* Properties of two stored requests.                                       *)

\* C31: a decide or cancel call on one request, whether it is accepted,
\* refused or fails in the database, leaves every other stored request
\* unchanged, and no request is added or removed.
C31_MutationScopedToOneRequest ==
    [][last'.op \in {"decide", "cancel"} =>
          /\ DOMAIN requests' = DOMAIN requests
          /\ \A k \in DOMAIN requests :
                k # last'.id => requests'[k] = requests[k]
          /\ last'.code # 200 => requests' = requests]_vars

\* the first request has been approved by both approvers and the second one
\* is as it was submitted
C31_Witness ==
    /\ last.op = "decide"
    /\ last.code = 200
    /\ last.id = 1
    /\ Len(requests) > 1
    /\ requests[1].status = "approved"
    /\ requests[2].status = "pending"
    /\ requests[2].managerApproval.status = "pending"
    /\ requests[2].coordinatorApproval.status = "pending"

----------------------------------------------------------------------------
(* Properties of the ledger across requests.                                *)

RECURSIVE SumTotalDays(_)
\* the sum of totalDays over the stored requests with the given ids
SumTotalDays(ids) ==
    IF ids = {} THEN 0
    ELSE LET k == CHOOSE j \in ids : TRUE
         IN  requests[k].totalDays + SumTotalDays(ids \ {k})

\* the requests that hold days of a ledger entry: same employee, academic
\* year and leave type, pending or approved
HoldsDaysOf(lb) ==
    {k \in DOMAIN requests :
        /\ requests[k].employee = lb.employee
        /\ requests[k].academicYear = lb.academicYear
        /\ requests[k].leaveType = lb.leaveType
        /\ requests[k].status \in {"pending", "approved"}}

\* C33: for every ledger entry, the totalDays of the employee's pending and
\* approved requests of its academic year and leave type sum to no more than
\* the entry's remaining.
C33_LedgerNotOverdrawn ==
    \A lb \in balances : SumTotalDays(HoldsDaysOf(lb)) <= lb.remaining

====
